---- MODULE Spec2Model ----
(***************************************************************************)
(* Model of the Telegram patient bot (src/index.js): the per-conversation  *)
(* buffer and its idle timer, the media / text / clear handlers, the       *)
(* request dispatcher with sequential credential fallback, and the reply   *)
(* (follow-up) branch with its records in the Context collection.          *)
(*                                                                         *)
(* The runtime is single-threaded: every action below is one run-to-       *)
(* completion step of a handler, from one suspension point (await) to the  *)
(* next.  Handlers suspended at an await are the entries of `tasks`.       *)
(***************************************************************************)
EXTENDS Integers, Sequences, FiniteSets, TLC

\* ------------------------------------------------------------------ bounds
MaxItems == 2          \* appends accepted over a whole behaviour
MaxKeys == 3           \* largest credential pool drawn at start
MaxFrames == 2         \* most frames one sampled video yields
TickMs == 150000       \* granularity of the clock, in milliseconds
MaxNow == 450000       \* the clock stops advancing here

\* ------------------------------------------------------- program constants
MEDIA_TIMEOUT_MS == 300000
MAX_PART_LEN == 4000
DEFAULT_FPS == 3

Chats == {"c1", "c2"}
TaskIds == {1, 2}

PRIMARY_SYSTEM_INSTRUCTION == "PRIMARY_SYSTEM_INSTRUCTION"
SECONDARY_SYSTEM_INSTRUCTION == "SECONDARY_SYSTEM_INSTRUCTION"

VARIABLES
    userBuffers,     \* Map chatId -> array of pending items (absent key = no entry)
    bufferTimeouts,  \* Map chatId -> handle of the timer armed for the chat
    timers,          \* the runtime's armed timers: [id, chat, due]
    now,             \* the clock, in milliseconds
    nextTimer,       \* next timer handle setTimeout returns
    nextItem,        \* identity of the next item object created
    API_KEYS,        \* CONFIG.API_KEYS, a sequence of credentials
    tmpdir,          \* os.tmpdir(): the files of the frame sampler's invocation
    sampler,         \* the invocation of extractFramesFromVideo
    tasks,           \* handler invocations suspended at an await
    store,           \* the Context collection
    thread,          \* history: per result message, the message it replied to and
                     \*          the mode its record was created with
    nextMsg,         \* message id of the bot's next result message
    lastEvent,       \* history: the most recent buffer event or handler completion
    log,             \* history: per chat, every item appended, in append order
    drained,         \* history: per chat, the results of all drains, concatenated
    lastAppend,      \* history: per chat, time and pending count at the last append
    cancelled        \* history: handles of the timers an explicit drain cancelled

bufVars == <<userBuffers, bufferTimeouts, timers, nextTimer, nextItem>>
histVars == <<log, drained, lastAppend, cancelled>>
vars == <<userBuffers, bufferTimeouts, timers, now, nextTimer, nextItem, API_KEYS,
          tmpdir, sampler,
          tasks, store, thread, nextMsg, lastEvent, log, drained, lastAppend,
          cancelled>>

\* ------------------------------------------------------------ Map helpers
MapHas(m, k) == k \in DOMAIN m
MapSet(m, k, v) == [x \in DOMAIN m \cup {k} |-> IF x = k THEN v ELSE m[x]]
MapDelete(m, k) == [x \in DOMAIN m \ {k} |-> m[x]]
EmptyMap == [x \in {} |-> 0]

Range(s) == {s[j] : j \in 1..Len(s)}

\* ------------------------------------------------------------------ texts
\* A message text is a sequence of one-character strings.
Digits == {"0", "1", "2", "3", "4", "5", "6", "7", "8", "9"}

RECURSIVE trimStart(_)
trimStart(text) ==
    IF text # <<>> /\ Head(text) = " " THEN trimStart(Tail(text)) ELSE text

RECURSIVE trimEnd(_)
trimEnd(text) ==
    IF text # <<>> /\ text[Len(text)] = " "
    THEN trimEnd(SubSeq(text, 1, Len(text) - 1)) ELSE text

trim(text) == trimEnd(trimStart(text))

\* Variant: any digit qualifies the marker.
isPrimary_AnyDigit(text) ==
    \/ text = <<".">>
    \/ Len(text) = 2 /\ text[1] = "." /\ text[2] \in Digits

\* /^(\.|(\.[1-3]))$/
isPrimary(text) ==
    \/ text = <<".">>
    \/ Len(text) = 2 /\ text[1] = "." /\ text[2] \in {"1", "2", "3"}

\* /^(\.\.|(\.\.[1-3]))$/
isSecondary(text) ==
    \/ text = <<".", ".">>
    \/ Len(text) = 3 /\ text[1] = "." /\ text[2] = "." /\ text[3] \in {"1", "2", "3"}

parseInt(ch) ==
    CASE ch = "0" -> 0 [] ch = "1" -> 1 [] ch = "2" -> 2 [] ch = "3" -> 3
      [] ch = "4" -> 4 [] ch = "5" -> 5 [] ch = "6" -> 6 [] ch = "7" -> 7
      [] ch = "8" -> 8 [] ch = "9" -> 9

\* Variant: the qualifier is ignored.
parseFps_AlwaysDefault(text) == DEFAULT_FPS

\* const lastChar = text.slice(-1); let fps = isNaN(lastChar) ? 3 : parseInt(lastChar);
\* if (text === '.' || text === '..') fps = 3;
parseFps(text) ==
    LET lastChar == text[Len(text)]
        fps == IF lastChar \notin Digits THEN DEFAULT_FPS ELSE parseInt(lastChar)
    IN IF text = <<".">> \/ text = <<".", ".">> THEN DEFAULT_FPS ELSE fps

parseMode(text) == IF isSecondary(text) THEN "secondary" ELSE "primary"

\* ------------------------------------------------------------------ items
NoText == <<>>

TextItem(id, text) ==
    [id |-> id, type |-> "text", mime |-> "", caption |-> "", text |-> text]

\* handleMedia's item: type: type === 'photo' ? 'image' : type, caption: caption || ''
MediaItem(id, type, mime, caption) ==
    [id |-> id, type |-> IF type = "photo" THEN "image" ELSE type,
     mime |-> mime, caption |-> caption, text |-> NoText]

\* The mime handleMedia takes for an update of this kind.
MediaMime(type, mime) ==
    CASE type = "photo" -> "image/jpeg"
      [] type \in {"voice", "audio"} -> (IF mime = "" THEN "audio/ogg" ELSE mime)
      [] OTHER -> mime

Ids(items) == [j \in 1..Len(items) |-> items[j].id]

\* ------------------------------------------------- buffer and idle timer
BufferOf(chatId) == IF MapHas(userBuffers, chatId) THEN userBuffers[chatId] ELSE <<>>

TimersOf(chatId) == {tm \in timers : tm.chat = chatId}

\* Variant: the entry is replaced even when one exists.
getBuffer_AlwaysFresh(buffers, chatId) == MapSet(buffers, chatId, <<>>)

\* The map after getBuffer(chatId); the array returned is its entry for chatId.
getBuffer(buffers, chatId) ==
    IF ~MapHas(buffers, chatId) THEN MapSet(buffers, chatId, <<>>) ELSE buffers

push(buffers, chatId, item) ==
    LET b == getBuffer(buffers, chatId) IN MapSet(b, chatId, Append(b[chatId], item))

\* Variant: every armed timer is cancelled, whichever conversation armed it.
clearTimeout_Every(armed, handle) == {}

clearTimeout(armed, handle) == {tm \in armed : tm.id # handle}

setTimeout(armed, handle, chatId, delay) ==
    armed \cup {[id |-> handle, chat |-> chatId, due |-> now + delay]}

\* Variant: the entry is deleted before it is read.
clearBuffer_DeleteFirst(chatId) ==
    LET has == MapHas(bufferTimeouts, chatId)
    IN [timers |-> IF has THEN clearTimeout(timers, bufferTimeouts[chatId]) ELSE timers,
        bufferTimeouts |-> MapDelete(bufferTimeouts, chatId),
        items |-> <<>>,
        userBuffers |-> MapDelete(userBuffers, chatId)]

\* Variant: the entry is returned but not deleted.
clearBuffer_KeepEntry(chatId) ==
    LET has == MapHas(bufferTimeouts, chatId)
    IN [timers |-> IF has THEN clearTimeout(timers, bufferTimeouts[chatId]) ELSE timers,
        bufferTimeouts |-> MapDelete(bufferTimeouts, chatId),
        items |-> BufferOf(chatId),
        userBuffers |-> userBuffers]

\* Variant: the handle is forgotten without clearTimeout.
clearBuffer_NoCancel(chatId) ==
    [timers |-> timers,
     bufferTimeouts |-> MapDelete(bufferTimeouts, chatId),
     items |-> BufferOf(chatId),
     userBuffers |-> MapDelete(userBuffers, chatId)]

\* Variant: the timer is cancelled but its handle stays in the map.
clearBuffer_KeepHandle(chatId) ==
    LET has == MapHas(bufferTimeouts, chatId)
    IN [timers |-> IF has THEN clearTimeout(timers, bufferTimeouts[chatId]) ELSE timers,
        bufferTimeouts |-> bufferTimeouts,
        items |-> BufferOf(chatId),
        userBuffers |-> MapDelete(userBuffers, chatId)]

\* The items clearBuffer(chatId) returns and the maps and armed timers it leaves.
clearBuffer(chatId) ==
    LET has == MapHas(bufferTimeouts, chatId)
    IN [timers |-> IF has THEN clearTimeout(timers, bufferTimeouts[chatId]) ELSE timers,
        bufferTimeouts |-> IF has THEN MapDelete(bufferTimeouts, chatId)
                           ELSE bufferTimeouts,
        items |-> BufferOf(chatId),
        userBuffers |-> MapDelete(userBuffers, chatId)]

\* Variant: a new timer is armed without clearing the old one.
resetTimeout_NoClear(chatId) ==
    [timers |-> setTimeout(timers, nextTimer, chatId, MEDIA_TIMEOUT_MS),
     bufferTimeouts |-> MapSet(bufferTimeouts, chatId, nextTimer)]

\* The armed timers and the handle map resetTimeout(chatId, ctx) leaves.
resetTimeout(chatId) ==
    LET kept == IF MapHas(bufferTimeouts, chatId)
                THEN clearTimeout(timers, bufferTimeouts[chatId]) ELSE timers
    IN [timers |-> setTimeout(kept, nextTimer, chatId, MEDIA_TIMEOUT_MS),
        bufferTimeouts |-> MapSet(bufferTimeouts, chatId, nextTimer)]

\* Variant: the count is one short.
TimeoutNotice_OffByOne(items) ==
    IF Len(items) > 1 THEN <<[kind |-> "timeout", n |-> Len(items) - 1]>> ELSE <<>>

\* if (items.length > 0) await ctx.reply(`Timeout: Cleared ${items.length} ...`)
TimeoutNotice(items) ==
    IF Len(items) > 0 THEN <<[kind |-> "timeout", n |-> Len(items)]>> ELSE <<>>

NoAppend == [at |-> 0, len |-> 0, timer |-> 0]

Event(op, chatId, items, replies, timer) ==
    [op |-> op, chat |-> chatId, items |-> items, replies |-> replies, timer |-> timer]

\* getBuffer(chatId).push(item); resetTimeout(chatId, ctx);
AppendItem(chatId, item) ==
    LET rt == resetTimeout(chatId)
        buffers == push(userBuffers, chatId, item)
    IN /\ userBuffers' = buffers
       /\ timers' = rt.timers
       /\ bufferTimeouts' = rt.bufferTimeouts
       /\ nextTimer' = nextTimer + 1
       /\ log' = [log EXCEPT ![chatId] = Append(@, item.id)]
       /\ lastAppend' = [lastAppend EXCEPT ![chatId] =
              [at |-> now, len |-> Len(buffers[chatId]), timer |-> nextTimer]]
       /\ UNCHANGED <<drained, cancelled>>

\* const items = clearBuffer(chatId), called from a trigger or the clear command.
Drain(chatId) ==
    LET cb == clearBuffer(chatId)
    IN /\ userBuffers' = cb.userBuffers
       /\ timers' = cb.timers
       /\ bufferTimeouts' = cb.bufferTimeouts
       /\ drained' = [drained EXCEPT ![chatId] = @ \o Ids(cb.items)]
       /\ cancelled' = IF MapHas(bufferTimeouts, chatId)
                       THEN cancelled \cup {bufferTimeouts[chatId]} ELSE cancelled
       /\ lastAppend' = [lastAppend EXCEPT ![chatId] = NoAppend]
       /\ UNCHANGED <<nextTimer, log>>

\* ------------------------------------------------- question classifier
UpperCase == <<"A", "B", "C", "D", "E", "F", "G", "H", "I", "J", "K", "L", "M",
               "N", "O", "P", "Q", "R", "S", "T", "U", "V", "W", "X", "Y", "Z">>
LowerCase == <<"a", "b", "c", "d", "e", "f", "g", "h", "i", "j", "k", "l", "m",
               "n", "o", "p", "q", "r", "s", "t", "u", "v", "w", "x", "y", "z">>

toLowerCase(text) ==
    [j \in 1..Len(text) |->
        IF \E k \in 1..Len(UpperCase) : UpperCase[k] = text[j]
        THEN LowerCase[CHOOSE k \in 1..Len(UpperCase) : UpperCase[k] = text[j]]
        ELSE text[j]]

startsWith(text, w) == Len(text) >= Len(w) /\ SubSeq(text, 1, Len(w)) = w
endsWith(text, w) ==
    Len(text) >= Len(w) /\ SubSeq(text, Len(text) - Len(w) + 1, Len(text)) = w

QuestionWords ==
    { <<"w", "h", "a", "t">>, <<"w", "h", "y">>, <<"h", "o", "w">>, <<"i", "s">>,
      <<"d", "o", "e", "s">>, <<"c", "a", "n">>, <<"e", "x", "p", "l", "a", "i", "n">> }

isQuestion(text) ==
    IF text = NoText THEN FALSE
    ELSE LET t == trim(toLowerCase(text))
         IN endsWith(t, <<"?">>) \/ \E w \in QuestionWords : startsWith(t, w)

\* ---------------------------------------------------------- frame sampler
\* The files of one invocation, which are named after its tempId: the input
\* file, and the frame files by the number the decoder gave them.
NoFiles == [input |-> FALSE, frames |-> {}]

IdleSampler == [pc |-> "idle", decodes |-> 0, settled |-> "pending", frames |-> <<>>]

PAD_WIDTH == 3

RECURSIVE decimal(_)
decimal(n) == IF n < 10 THEN <<n>> ELSE decimal(n \div 10) \o <<n % 10>>

\* `frame_${tempId}_%03d.jpg` for frame number n, as the UTF-16 code units of
\* what follows the prefix all the names share: the number padded with zeros to
\* at least three digits (a longer number is written in full), then ".jpg".
outputPattern(n) ==
    LET d == decimal(n)
        padded == [k \in 1..(PAD_WIDTH - Len(d)) |-> 0] \o d
    IN [k \in 1..Len(padded) |-> 48 + padded[k]] \o <<46, 106, 112, 103>>

\* The order of Array.prototype.sort() without a comparator: strings compared
\* code unit by code unit, a proper prefix first.
RECURSIVE before(_, _, _)
before(a, b, k) ==
    IF k > Len(a) THEN k <= Len(b)
    ELSE IF k > Len(b) THEN FALSE
    ELSE IF a[k] = b[k] THEN before(a, b, k + 1)
    ELSE a[k] < b[k]

\* files.sort(): the listed frame files, by number, in the order of their
\* names.  The names are distinct, so the result is the one arrangement in
\* which each name is before the next, whatever the order of the listing.
RECURSIVE sort(_)
sort(files) ==
    IF Len(files) <= 1 THEN files
    ELSE LET pivot == files[(Len(files) + 1) \div 2]
             name == outputPattern(pivot)
             lower(n) == before(outputPattern(n), name, 1)
             upper(n) == before(name, outputPattern(n), 1)
         IN sort(SelectSeq(files, lower)) \o <<pivot>> \o sort(SelectSeq(files, upper))

\* readdirSync(tempDir).filter(...): the frame files of this invocation.
readdirSync(frames) == [k \in 1..Cardinality(frames) |-> k]

\* The call, up to the return of the promise: the executor writes the input
\* file and starts the decoder.  A throw of writeFileSync rejects the promise
\* (the file it was writing may exist by then).  The video decodes to `n` frames.
extractFramesFromVideo(n, ok, left) ==
    /\ sampler.pc = "idle"
    /\ IF ok
       THEN /\ tmpdir' = [tmpdir EXCEPT !.input = TRUE]
            /\ sampler' = [sampler EXCEPT !.pc = "decoding", !.decodes = n]
       ELSE /\ tmpdir' = [tmpdir EXCEPT !.input = left]
            /\ sampler' = [sampler EXCEPT !.pc = "settled", !.decodes = n,
                                          !.settled = "rejected"]
    /\ UNCHANGED <<bufVars, histVars, now, API_KEYS, tasks, store, thread, nextMsg,
                   lastEvent>>

\* The decoder has written every frame and emits 'end'; the handler runs to
\* its end.  `step` is the call of the handler that throws, if one does, and
\* for "map" the read or the removal of any one of the files.
DecoderEnd(step) ==
    /\ sampler.pc = "decoding"
    /\ \E written \in {1..sampler.decodes} :
       \E files \in {sort(readdirSync(written))} :
       \E k \in IF step = "map" THEN 1..Len(files) ELSE {0} :
          /\ tmpdir' =
                CASE step = "none" -> NoFiles
                  [] step = "readdirSync" -> [tmpdir EXCEPT !.frames = written]
                  [] step = "map" ->
                        [tmpdir EXCEPT !.frames = {files[j] : j \in k..Len(files)}]
                  [] step = "unlinkSync" -> [tmpdir EXCEPT !.frames = {}]
          /\ sampler' =
                IF step = "none"
                THEN [sampler EXCEPT !.pc = "settled", !.settled = "resolved",
                                     !.frames = files]
                ELSE [sampler EXCEPT !.pc = "settled", !.settled = "rejected"]
    /\ UNCHANGED <<bufVars, histVars, now, API_KEYS, tasks, store, thread, nextMsg,
                   lastEvent>>

\* The decoder fails after writing `written` frames and emits 'error': the
\* handler removes the input file, ignoring a failure to do so, and rejects.
DecoderError(written, unlinked) ==
    /\ sampler.pc = "decoding"
    /\ written \in 0..sampler.decodes
    /\ tmpdir' = [input |-> ~unlinked, frames |-> 1..written]
    /\ sampler' = [sampler EXCEPT !.pc = "settled", !.settled = "rejected"]
    /\ UNCHANGED <<bufVars, histVars, now, API_KEYS, tasks, store, thread, nextMsg,
                   lastEvent>>

\* ------------------------------------------------------------ dispatcher
NoResp == [to |-> "none", under |-> "none", len |-> 0, key |-> 0]
NoContext == [chatId |-> "none", messageId |-> 0, originalMedia |-> <<>>,
              responseText |-> NoResp, mode |-> "none"]
NoResult == [response |-> NoResp, mode |-> "none"]
NoItem == [id |-> 0, type |-> "none", mime |-> "", caption |-> "", text |-> NoText]

Reply(kind, n) == [kind |-> kind, n |-> n]

FreeTask ==
    [pc |-> "free", handler |-> "none", chat |-> "none", item |-> NoItem,
     items |-> <<>>, idx |-> 0, processedContent |-> <<>>, textNotes |-> <<>>,
     mode |-> "none", fps |-> 0, previousContext |-> NoContext, userQuery |-> NoText,
     stage |-> "none", i |-> 0, calls |-> <<>>, result |-> NoResult, error |-> "",
     replies |-> <<>>, sent |-> 0, lastMsg |-> 0,
     text |-> NoText, replyId |-> 0, context |-> "none", outcomes |-> <<>>,
     outbox |-> <<>>]

Part(item, frame, mimeType) == [item |-> item.id, frame |-> frame, mimeType |-> mimeType]
Note(kind, item) == [kind |-> kind, item |-> item.id]

\* One pass of the loop body of processRequest for `item`: the parts and notes it
\* pushes.  ok: the download (and, for a video, the sampling) succeeded; n: the
\* number of frames the sampler returned.
resolveItem(item, ok, n) ==
    CASE item.type = "video" ->
            IF ok
            THEN [parts |-> [k \in 1..n |-> Part(item, k, "image/jpeg")],
                  notes |-> IF item.caption # ""
                            THEN [k \in 1..n |-> Note("Video Frame Caption", item)]
                            ELSE <<>>]
            ELSE [parts |-> <<>>, notes |-> <<>>]
      [] item.type \in {"image", "pdf", "audio"} ->
            IF ok
            THEN [parts |-> <<Part(item, 0, item.mime)>>,
                  notes |-> IF item.caption # "" THEN <<Note("caption", item)>> ELSE <<>>]
            ELSE [parts |-> <<>>, notes |-> <<>>]
      [] item.type = "text" -> [parts |-> <<>>, notes |-> <<Note("text", item)>>]
      [] OTHER -> [parts |-> <<>>, notes |-> <<>>]

Fetches(item) == item.type \in {"video", "image", "pdf", "audio"}

\* Variant: what one item yields is put in front of what is already there.
pushEach_Unshift(list, xs) == xs \o list

\* processedContent.push(...) and textNotes.push(...), once per element of xs.
pushEach(list, xs) == list \o xs

\* const parts = result.response.match(/[\s\S]{1,4000}/g) || [];
Chunks(len) == (len + MAX_PART_LEN - 1) \div MAX_PART_LEN

RECURSIVE matchAll(_, _)
\* response.match(/[\s\S]{1,4000}/g) from offset `from` on: each match takes as
\* many characters as are left, up to 4000.  A match is the span it covers.
matchAll(len, from) ==
    IF from > len THEN <<>>
    ELSE LET to == IF from + MAX_PART_LEN - 1 <= len THEN from + MAX_PART_LEN - 1
                   ELSE len
         IN <<[from |-> from, to |-> to]>> \o matchAll(len, to + 1)

\* catch (e) { ctx.reply(`Error: ${e.message}`); } of the handler running the task.
Throw(tk, message) ==
    [tk EXCEPT !.pc = "done", !.error = message,
               !.replies = Append(@, Reply("error", 0))]

\* Variant: the loop stops one key early.
KeysExhausted_SkipsLast(i) == ~(i < Len(API_KEYS) - 1)

\* The loop condition of generateGeminiResponse, negated: i < keys.length fails.
KeysExhausted(i) == ~(i < Len(API_KEYS))

\* Variant: a later call of the same dispatch resumes after the first key.
FirstKey_Rotating(tk) == IF Len(tk.calls) > 0 /\ Len(API_KEYS) > 1 THEN 1 ELSE 0

\* for (let i = 0; ...): the index every call starts from.
FirstKey(tk) == 0

\* generateGeminiResponse(request, instruction) up to its first await.
EnterCall(tk, stage, prompt, parts, instruction) ==
    LET call == [instruction |-> instruction, prompt |-> prompt, parts |-> parts,
                 attempts |-> <<>>, outcome |-> "pending", response |-> NoResp]
    IN IF Len(API_KEYS) = 0
       THEN Throw([tk EXCEPT !.stage = stage,
                             !.calls = Append(@, [call EXCEPT !.outcome = "nokeys"])],
                  "No API Keys")
       ELSE [tk EXCEPT !.pc = "call", !.stage = stage, !.i = FirstKey(tk),
                       !.calls = Append(@, call)]

\* The text handler once processRequest has returned `result`.
GotResult(tk, result) ==
    LET got == [tk EXCEPT !.result = result]
    IN IF tk.handler = "trigger"
       THEN IF Chunks(result.response.len) = 0
            THEN [got EXCEPT !.pc = "done",
                             !.replies = Append(@, Reply("deleteLoading", 0))]
            ELSE [got EXCEPT !.pc = "send", !.sent = 0]
       ELSE IF tk.handler = "reply"
       THEN [got EXCEPT !.pc = "sendReply"]
       ELSE [got EXCEPT !.pc = "done"]

\* Variant: the media parts are passed on to the secondary call.
SecondaryRequest_WithMedia(tk, primaryResponse) ==
    [prompt |-> [kind |-> "secondaryTrigger", notes |-> <<>>,
                 embed |-> primaryResponse, query |-> NoText],
     parts |-> tk.processedContent]

\* promptSecondary and requestSecondary = [promptSecondary]
SecondaryRequest(tk, primaryResponse) ==
    [prompt |-> [kind |-> "secondaryTrigger", notes |-> <<>>,
                 embed |-> primaryResponse, query |-> NoText],
     parts |-> <<>>]

\* processRequest after `await generateGeminiResponse(...)` returned `response`.
CallReturned(tk, response) ==
    CASE tk.stage = "followup" ->
            GotResult(tk, [response |-> response, mode |-> tk.previousContext.mode])
      [] tk.stage = "primary" ->
            GotResult(tk, [response |-> response, mode |-> "primary"])
      [] tk.stage = "chainPrimary" ->
            LET req == SecondaryRequest(tk, response)
            IN EnterCall(tk, "secondary", req.prompt, req.parts,
                         SECONDARY_SYSTEM_INSTRUCTION)
      [] tk.stage = "secondary" ->
            GotResult(tk, [response |-> response, mode |-> "secondary"])

\* Variant: a failed primary call of a chain falls through to the secondary call.
CallFailed_FallsThrough(tk) ==
    IF tk.stage = "chainPrimary"
    THEN LET req == SecondaryRequest(tk, NoResp)
         IN EnterCall(tk, "secondary", req.prompt, req.parts,
                      SECONDARY_SYSTEM_INSTRUCTION)
    ELSE Throw(tk, "All API keys failed.")

\* throw new Error("All API keys failed.") propagating out of processRequest.
CallFailed(tk) == Throw(tk, "All API keys failed.")

\* Variant: the profile is chosen by the mode argument.
FollowUpInstruction_FromModeArg(tk) ==
    IF tk.mode = "secondary"
    THEN SECONDARY_SYSTEM_INSTRUCTION ELSE PRIMARY_SYSTEM_INSTRUCTION

\* const instruction = previousContext.mode === 'secondary' ? ... : ...
FollowUpInstruction(tk) ==
    IF tk.previousContext.mode = "secondary"
    THEN SECONDARY_SYSTEM_INSTRUCTION ELSE PRIMARY_SYSTEM_INSTRUCTION

\* The LOGIC BRANCHING of processRequest, entered when the item loop is over.
Branch(tk) ==
    IF tk.previousContext # NoContext
    THEN LET instruction == FollowUpInstruction(tk)
             prompt == [kind |-> IF isQuestion(tk.userQuery) THEN "question"
                                 ELSE "correction",
                        notes |-> tk.textNotes,
                        embed |-> tk.previousContext.responseText,
                        query |-> tk.userQuery]
         IN EnterCall(tk, "followup", prompt, tk.processedContent, instruction)
    ELSE LET prompt == [kind |-> "primary", notes |-> tk.textNotes,
                        embed |-> NoResp, query |-> NoText]
         IN IF tk.mode = "primary"
            THEN EnterCall(tk, "primary", prompt, tk.processedContent,
                           PRIMARY_SYSTEM_INSTRUCTION)
            ELSE IF tk.mode = "secondary"
            THEN EnterCall(tk, "chainPrimary", prompt, tk.processedContent,
                           PRIMARY_SYSTEM_INSTRUCTION)
            ELSE Throw(tk, "TypeError")

\* ---------------------------------------------------------------- inputs
RespLens == {0, 1, MAX_PART_LEN + 1}

isTrigger(text) == isPrimary(text) \/ isSecondary(text)

\* Handler frames are taken lowest slot first.
Claimable(t) ==
    /\ tasks[t].pc = "free"
    /\ \A u \in TaskIds : u < t => tasks[u].pc # "free"

InLink == {t \in TaskIds : tasks[t].pc \in {"link", "findOne"}}

\* ---------------------------------------------------------------- actions
\* bot.command('clear')
clearCommand(chatId) ==
    /\ Drain(chatId)
    /\ lastEvent' = Event("clear", chatId, Ids(clearBuffer(chatId).items),
                          <<Reply("cleared", Len(clearBuffer(chatId).items))>>, 0)
    /\ UNCHANGED <<now, nextItem, API_KEYS, tmpdir, sampler, tasks, store, thread,
                   nextMsg>>

\* bot.on(message('text')), branch 3: a text that is no trigger and has no context.
BufferText(chatId, raw) ==
    LET text == trim(raw)
    IN /\ ~isTrigger(text)
       /\ nextItem + Cardinality(InLink) <= MaxItems
       /\ AppendItem(chatId, TextItem(nextItem, text))
       /\ nextItem' = nextItem + 1
       /\ lastEvent' = Event("append", chatId, <<nextItem>>, <<Reply("noted", 0)>>,
                             nextTimer)
       /\ UNCHANGED <<now, API_KEYS, tmpdir, sampler, tasks, store, thread, nextMsg>>

\* String.prototype.includes: `sub` occurs somewhere in `s`.
includes(s, sub) ==
    \E k \in 1..(Len(s) - Len(sub) + 1) : SubSeq(s, k, k + Len(sub) - 1) = sub

\* handleMedia for a document whose mime type does not include 'pdf'.
MediaRejected(chatId, mime) ==
    /\ ~includes(mime, "pdf")
    /\ lastEvent' = Event("rejected", chatId, <<>>, <<Reply("onlyPdf", 0)>>, 0)
    /\ UNCHANGED <<bufVars, histVars, now, API_KEYS, tmpdir, sampler, tasks, store,
                   thread, nextMsg>>

\* handleMedia up to `await ctx.telegram.getFileLink(fileId)`.
MediaStart(chatId, type, mime, caption, t) ==
    /\ Claimable(t)
    /\ type = "document" => includes(mime, "pdf")
    /\ nextItem + Cardinality(InLink) <= MaxItems
    /\ tasks' = [tasks EXCEPT ![t] =
           [FreeTask EXCEPT !.pc = "link", !.handler = "media", !.chat = chatId,
                            !.item = MediaItem(0, type, MediaMime(type, mime), caption)]]
    /\ UNCHANGED <<bufVars, histVars, now, API_KEYS, tmpdir, sampler, store, thread,
                   nextMsg, lastEvent>>

\* Variant: the timer is re-armed also when the lookup threw.
MediaLink_RearmsOnFailure(t, ok) ==
    /\ tasks[t].pc = "link"
    /\ tasks' = [tasks EXCEPT ![t] = FreeTask]
    /\ IF ok
       THEN /\ AppendItem(tasks[t].chat, [tasks[t].item EXCEPT !.id = nextItem])
            /\ nextItem' = nextItem + 1
            /\ lastEvent' = Event("append", tasks[t].chat, <<nextItem>>,
                                  <<Reply("added", 0)>>, nextTimer)
       ELSE /\ lastEvent' = Event("linkFailed", tasks[t].chat, <<>>,
                                  <<Reply("error", 0)>>, 0)
            /\ timers' = resetTimeout(tasks[t].chat).timers
            /\ bufferTimeouts' = resetTimeout(tasks[t].chat).bufferTimeouts
            /\ nextTimer' = nextTimer + 1
            /\ UNCHANGED <<userBuffers, nextItem, histVars>>
    /\ UNCHANGED <<now, API_KEYS, tmpdir, sampler, store, thread, nextMsg>>

\* handleMedia resumed: the file link resolved (ok) or the lookup threw.
MediaLink(t, ok) ==
    /\ tasks[t].pc = "link"
    /\ tasks' = [tasks EXCEPT ![t] = FreeTask]
    /\ IF ok
       THEN /\ AppendItem(tasks[t].chat, [tasks[t].item EXCEPT !.id = nextItem])
            /\ nextItem' = nextItem + 1
            /\ lastEvent' = Event("append", tasks[t].chat, <<nextItem>>,
                                  <<Reply("added", 0)>>, nextTimer)
       ELSE /\ lastEvent' = Event("linkFailed", tasks[t].chat, <<>>,
                                  <<Reply("error", 0)>>, 0)
            /\ UNCHANGED <<bufVars, histVars>>
    /\ UNCHANGED <<now, API_KEYS, tmpdir, sampler, store, thread, nextMsg>>

\* The callback resetTimeout handed to setTimeout, run when its delay has elapsed.
TimerFire(tm) ==
    /\ tm \in timers
    /\ now >= tm.due
    /\ LET cb == clearBuffer(tm.chat)
       IN /\ userBuffers' = cb.userBuffers
          /\ bufferTimeouts' = cb.bufferTimeouts
          /\ timers' = cb.timers \ {tm}
          /\ drained' = [drained EXCEPT ![tm.chat] = @ \o Ids(cb.items)]
          /\ lastEvent' = Event("timeout", tm.chat, Ids(cb.items),
                                TimeoutNotice(cb.items), tm.id)
    /\ lastAppend' = [lastAppend EXCEPT ![tm.chat] = NoAppend]
    /\ UNCHANGED <<nextTimer, nextItem, log, cancelled, now, API_KEYS, tmpdir, sampler,
                   tasks, store, thread, nextMsg>>

Tick ==
    /\ now + TickMs <= MaxNow
    /\ now' = now + TickMs
    /\ UNCHANGED <<bufVars, histVars, API_KEYS, tmpdir, sampler, tasks, store, thread,
                   nextMsg, lastEvent>>

\* bot.on(message('text')), trigger branch, buffer empty.
TriggerEmpty(chatId, raw) ==
    /\ isTrigger(trim(raw))
    /\ Len(clearBuffer(chatId).items) = 0
    /\ Drain(chatId)
    /\ lastEvent' = Event("trigger", chatId, <<>>, <<Reply("empty", 0)>>, 0)
    /\ UNCHANGED <<now, nextItem, API_KEYS, tmpdir, sampler, tasks, store, thread,
                   nextMsg>>

\* Variant: the dispatch starts whether or not the drain returned anything.
TriggerStart_NoEmptyCheck(chatId, raw, t) ==
    LET text == trim(raw)
        items == clearBuffer(chatId).items
    IN /\ isTrigger(text)
       /\ Claimable(t)
       /\ Drain(chatId)
       /\ tasks' = [tasks EXCEPT ![t] =
              [FreeTask EXCEPT !.pc = "resolve", !.handler = "trigger",
                               !.chat = chatId, !.items = items, !.idx = 1,
                               !.mode = parseMode(text), !.fps = parseFps(text),
                               !.text = text,
                               !.replies = <<Reply("loading", Len(items))>>]]
       /\ lastEvent' = Event("trigger", chatId, Ids(items),
                             <<Reply("loading", Len(items))>>, 0)
       /\ UNCHANGED <<now, nextItem, API_KEYS, tmpdir, sampler, store, thread, nextMsg>>

\* bot.on(message('text')), trigger branch, up to `await ctx.reply(loading)`.
TriggerStart(chatId, raw, t) ==
    LET text == trim(raw)
        items == clearBuffer(chatId).items
    IN /\ isTrigger(text)
       /\ Len(items) # 0
       /\ Claimable(t)
       /\ Drain(chatId)
       /\ tasks' = [tasks EXCEPT ![t] =
              [FreeTask EXCEPT !.pc = "resolve", !.handler = "trigger",
                               !.chat = chatId, !.items = items, !.idx = 1,
                               !.mode = parseMode(text), !.fps = parseFps(text),
                               !.text = text,
                               !.replies = <<Reply("loading", Len(items))>>]]
       /\ lastEvent' = Event("trigger", chatId, Ids(items),
                             <<Reply("loading", Len(items))>>, 0)
       /\ UNCHANGED <<now, nextItem, API_KEYS, tmpdir, sampler, store, thread, nextMsg>>

\* processRequest entered with the arguments held in the frame.
EnterProcess(t) ==
    LET tk == tasks[t]
    IN /\ tk.pc = "enter"
       /\ tasks' = [tasks EXCEPT ![t] =
              IF Len(tk.items) > 0 THEN [tk EXCEPT !.pc = "resolve", !.idx = 1]
              ELSE Branch(tk)]
       /\ UNCHANGED <<bufVars, histVars, now, API_KEYS, tmpdir, sampler, store, thread,
                      nextMsg, lastEvent>>

\* processRequest: one pass of `for (const item of items)`.
ResolveItem(t, ok, n) ==
    LET tk == tasks[t]
        item == tk.items[tk.idx]
        got == resolveItem(item, ok, n)
        next == [tk EXCEPT !.idx = @ + 1,
                           !.processedContent = pushEach(@, got.parts),
                           !.textNotes = pushEach(@, got.notes),
                           !.outcomes = Append(@, [ok |-> ok, n |-> n])]
    IN /\ tk.pc = "resolve"
       /\ IF item.type = "video" THEN (ok \/ n = 0)
          ELSE n = 0 /\ (Fetches(item) \/ ok)
       /\ tasks' = [tasks EXCEPT ![t] =
              IF tk.idx = Len(tk.items) THEN Branch(next) ELSE next]
       /\ UNCHANGED <<bufVars, histVars, now, API_KEYS, tmpdir, sampler, store, thread,
                      nextMsg, lastEvent>>

\* generateGeminiResponse: one pass of the key loop, model.generateContent settled.
Attempt(t, ok, len) ==
    LET tk == tasks[t]
        c == Len(tk.calls)
        response == [to |-> tk.calls[c].prompt.kind, under |-> tk.calls[c].instruction,
                     len |-> len, key |-> API_KEYS[tk.i + 1]]
        tried == [tk EXCEPT !.calls[c].attempts =
                      Append(@, [key |-> API_KEYS[tk.i + 1], ok |-> ok])]
    IN /\ tk.pc = "call"
       /\ ok \/ len = 0
       /\ tasks' = [tasks EXCEPT ![t] =
              IF ok
              THEN CallReturned([tried EXCEPT !.calls[c].outcome = "ok",
                                              !.calls[c].response = response],
                                response)
              ELSE IF KeysExhausted(tk.i + 1)
              THEN CallFailed([tried EXCEPT !.calls[c].outcome = "failed"])
              ELSE [tried EXCEPT !.i = @ + 1]]
       /\ UNCHANGED <<bufVars, histVars, now, API_KEYS, tmpdir, sampler, store, thread,
                      nextMsg, lastEvent>>

\* for (const part of parts) lastMsg = await ctx.reply(part, ...)
SendPart(t) ==
    LET tk == tasks[t]
    IN /\ tk.pc = "send"
       /\ tasks' = [tasks EXCEPT ![t] =
              [tk EXCEPT !.sent = @ + 1, !.lastMsg = nextMsg,
                         !.replies = Append(@, Reply("part", nextMsg)),
                         !.outbox = Append(@,
                             matchAll(tk.result.response.len, 1)[tk.sent + 1]),
                         !.pc = IF tk.sent + 1 = Chunks(tk.result.response.len)
                                THEN "persist" ELSE "send"]]
       /\ nextMsg' = nextMsg + 1
       /\ UNCHANGED <<bufVars, histVars, now, API_KEYS, tmpdir, sampler, store, thread,
                      lastEvent>>

\* Variant: the mode is left out, and the schema's default applies.
TriggerRecord_DefaultMode(tk) ==
    [chatId |-> tk.chat, messageId |-> tk.lastMsg,
     originalMedia |-> [j \in 1..Len(tk.items) |->
          [type |-> tk.items[j].type, mime |-> tk.items[j].mime]],
     responseText |-> tk.result.response, mode |-> "primary"]

\* The document the trigger branch creates.
TriggerRecord(tk) ==
    [chatId |-> tk.chat, messageId |-> tk.lastMsg,
     originalMedia |-> [j \in 1..Len(tk.items) |->
          [type |-> tk.items[j].type, mime |-> tk.items[j].mime]],
     responseText |-> tk.result.response, mode |-> tk.result.mode]

\* await ContextModel.create({...}) of the trigger branch
Persist(t) ==
    LET tk == tasks[t]
    IN /\ tk.pc = "persist"
       /\ store' = store \cup {TriggerRecord(tk)}
       /\ thread' = MapSet(thread, tk.lastMsg, [parent |-> 0, mode |-> tk.result.mode])
       /\ tasks' = [tasks EXCEPT ![t] =
              [tk EXCEPT !.pc = "done",
                         !.replies = Append(@, Reply("deleteLoading", 0))]]
       /\ UNCHANGED <<bufVars, histVars, now, API_KEYS, tmpdir, sampler, nextMsg,
                      lastEvent>>

\* bot.on(message('text')), branch 2, up to `await ContextModel.findOne(...)`:
\* a text that is no trigger and replies to the message replyId.
ReplyStart(chatId, raw, replyId, t) ==
    LET text == trim(raw)
    IN /\ ~isTrigger(text)
       /\ Claimable(t)
       /\ nextItem + Cardinality(InLink) <= MaxItems
       /\ tasks' = [tasks EXCEPT ![t] =
              [FreeTask EXCEPT !.pc = "findOne", !.handler = "reply", !.chat = chatId,
                               !.text = text, !.replyId = replyId]]
       /\ UNCHANGED <<bufVars, histVars, now, API_KEYS, tmpdir, sampler, store, thread,
                      nextMsg, lastEvent>>

\* findOne({ chatId, messageId: replyId }): the document found, or null.
findOne(chatId, replyId) ==
    LET found == {r \in store : r.chatId = chatId /\ r.messageId = replyId}
    IN IF found = {} THEN NoContext ELSE CHOOSE r \in found : TRUE

\* The items argument of the reply branch's processRequest call: `[]`.
FollowUpItems(chatId) == <<>>

\* The handler resumed after findOne.  ok: the query settled with `context`;
\* otherwise it rejected (store unavailable), outside any try block, and the
\* handler's promise rejects.  With a context the handler announces the analysis
\* and enters processRequest(chatId, [], context.mode, context, text); without
\* one it falls through to branch 3 and buffers the text.
FindOne(t, ok) ==
    LET tk == tasks[t]
        context == findOne(tk.chat, tk.replyId)
    IN /\ tk.pc = "findOne"
       /\ IF ~ok
          THEN /\ tasks' = [tasks EXCEPT ![t] =
                      [tk EXCEPT !.pc = "done", !.context = "rejected",
                                 !.error = "unhandled"]]
               /\ UNCHANGED <<bufVars, histVars, lastEvent>>
          ELSE IF context # NoContext
          THEN /\ tasks' = [tasks EXCEPT ![t] =
                      Branch([tk EXCEPT !.context = "found",
                                        !.items = FollowUpItems(tk.chat),
                                        !.previousContext = context,
                                        !.mode = context.mode,
                                        !.userQuery = tk.text,
                                        !.replies = <<Reply("analyzing", 0)>>])]
               /\ UNCHANGED <<bufVars, histVars, lastEvent>>
          ELSE /\ tasks' = [tasks EXCEPT ![t] = FreeTask]
               /\ AppendItem(tk.chat, TextItem(nextItem, tk.text))
               /\ nextItem' = nextItem + 1
               /\ lastEvent' = Event("append", tk.chat, <<nextItem>>,
                                     <<Reply("noted", 0)>>, nextTimer)
       /\ UNCHANGED <<now, API_KEYS, tmpdir, sampler, store, thread, nextMsg>>

\* const sent = await ctx.reply(result.response, ...): the whole response as one
\* message.  The transport accepts a text of 1 to 4000 characters only.
SendReply(t, ok) ==
    LET tk == tasks[t]
    IN /\ tk.pc = "sendReply"
       /\ ok => tk.result.response.len \in 1..MAX_PART_LEN
       /\ tasks' = [tasks EXCEPT ![t] =
              LET whole == [from |-> 1, to |-> tk.result.response.len]
                  handed == [tk EXCEPT !.outbox = Append(@, whole)]
              IN IF ok
                 THEN [handed EXCEPT !.pc = "persistReply", !.lastMsg = nextMsg,
                                     !.replies = Append(@, Reply("reply", nextMsg))]
                 ELSE Throw(handed, "sendMessage failed")]
       /\ nextMsg' = IF ok THEN nextMsg + 1 ELSE nextMsg
       /\ UNCHANGED <<bufVars, histVars, now, API_KEYS, tmpdir, sampler, store, thread,
                      lastEvent>>

\* Variant: the mode is left out, and the schema's default applies.
ReplyRecord_DefaultMode(tk) ==
    [chatId |-> tk.chat, messageId |-> tk.lastMsg,
     originalMedia |-> tk.previousContext.originalMedia,
     responseText |-> tk.result.response, mode |-> "primary"]

\* The document the reply branch creates.
ReplyRecord(tk) ==
    [chatId |-> tk.chat, messageId |-> tk.lastMsg,
     originalMedia |-> tk.previousContext.originalMedia,
     responseText |-> tk.result.response, mode |-> tk.previousContext.mode]

\* Variant: the reply branch clears the conversation's buffer when it is done.
PersistReply_ClearsBuffer(t) ==
    LET tk == tasks[t]
        cb == clearBuffer(tk.chat)
    IN /\ tk.pc = "persistReply"
       /\ store' = store \cup {ReplyRecord(tk)}
       /\ thread' = MapSet(thread, tk.lastMsg,
              [parent |-> tk.previousContext.messageId, mode |-> ReplyRecord(tk).mode])
       /\ tasks' = [tasks EXCEPT ![t] =
              [tk EXCEPT !.pc = "done",
                         !.replies = Append(@, Reply("deleteLoading", 0))]]
       /\ userBuffers' = cb.userBuffers
       /\ timers' = cb.timers
       /\ bufferTimeouts' = cb.bufferTimeouts
       /\ UNCHANGED <<nextTimer, nextItem, histVars, now, API_KEYS, tmpdir, sampler,
                      nextMsg, lastEvent>>

\* await ContextModel.create({...}) of the reply branch
PersistReply(t) ==
    LET tk == tasks[t]
    IN /\ tk.pc = "persistReply"
       /\ store' = store \cup {ReplyRecord(tk)}
       /\ thread' = MapSet(thread, tk.lastMsg,
              [parent |-> tk.previousContext.messageId, mode |-> ReplyRecord(tk).mode])
       /\ tasks' = [tasks EXCEPT ![t] =
              [tk EXCEPT !.pc = "done",
                         !.replies = Append(@, Reply("deleteLoading", 0))]]
       /\ UNCHANGED <<bufVars, histVars, now, API_KEYS, tmpdir, sampler, nextMsg,
                      lastEvent>>

\* The handler's promise settles; its frame is gone.
Return(t) ==
    /\ tasks[t].pc = "done"
    /\ tasks' = [tasks EXCEPT ![t] = FreeTask]
    /\ UNCHANGED <<bufVars, histVars, now, API_KEYS, tmpdir, sampler, store, thread,
                   nextMsg, lastEvent>>

\* ---------------------------------------------------------- specification
TELEGRAM_TOKEN == "token"

\* The check before the handlers are registered: the process exits unless a bot
\* token is configured.  CONFIG.API_KEYS is not examined.
serving(token, keys) == token # ""

\* The process once it serves: `keys` are the credential pools GEMINI_API_KEYS
\* may configure.
InitWith(keys) ==
    /\ userBuffers = EmptyMap
    /\ bufferTimeouts = EmptyMap
    /\ timers = {}
    /\ now = 0
    /\ nextTimer = 1
    /\ nextItem = 1
    /\ API_KEYS \in {pool \in keys : serving(TELEGRAM_TOKEN, pool)}
    /\ tmpdir = NoFiles
    /\ sampler = IdleSampler
    /\ tasks = [t \in TaskIds |-> FreeTask]
    /\ store = {}
    /\ thread = EmptyMap
    /\ nextMsg = 1
    /\ lastEvent = Event("none", "none", <<>>, <<>>, 0)
    /\ log = [c \in Chats |-> <<>>]
    /\ drained = [c \in Chats |-> <<>>]
    /\ lastAppend = [c \in Chats |-> NoAppend]
    /\ cancelled = {}

Pools == {[j \in 1..n |-> j] : n \in 0..MaxKeys}

\* Two conversations, two handlers in flight, the clock running: every
\* interleaving of appends, drains and timer expiries.  One credential, whose
\* invocation fails; photos and text notes only.
Init == InitWith({<<1>>})

Next ==
    \/ \E c \in Chats : clearCommand(c)
    \/ \E c \in Chats : BufferText(c, <<"h", "i", "?">>)
    \/ \E c \in Chats, t \in TaskIds : MediaStart(c, "photo", "", "", t)
    \/ \E t \in TaskIds : MediaLink(t, TRUE)
    \/ \E tm \in timers : TimerFire(tm)
    \/ Tick
    \/ \E c \in Chats : TriggerEmpty(c, <<".">>)
    \/ \E c \in Chats, t \in TaskIds : TriggerStart(c, <<".">>, t)
    \/ \E t \in TaskIds : ResolveItem(t, TRUE, 0)
    \/ \E t \in TaskIds : Attempt(t, FALSE, 0)
    \/ \E t \in TaskIds : Return(t)

Spec == Init /\ [][Next]_vars

\* One conversation, one handler in flight, the clock standing still (everything
\* happens inside one idle window), and a user who sends every item before the
\* first trigger and sends nothing while a handler is in flight: every
\* credential pool, item kind, resolution outcome, trigger form and response
\* length.
InitDispatch == InitWith(Pools)

Filling == drained["c1"] = <<>>

Idle == \A t \in TaskIds : tasks[t].pc = "free"

DispatchTriggers == { <<".", "2">>, <<".", ".">> }

NextDispatch ==
    \/ Filling /\ BufferText("c1", <<"h", "i", "?">>)
    \/ \E mime \in {"image/png", ""} : Filling /\ MediaRejected("c1", mime)
    \/ \E ty \in {"photo", "video"} :
          Filling /\ MediaStart("c1", ty, "video/mp4", "cap", 1)
    \/ \E ok \in BOOLEAN : MediaLink(1, ok)
    \/ \E x \in DispatchTriggers : Idle /\ TriggerEmpty("c1", x)
    \/ \E x \in DispatchTriggers : TriggerStart("c1", x, 1)
    \/ \E ok \in BOOLEAN, n \in 0..MaxFrames : ResolveItem(1, ok, n)
    \/ \E ok \in BOOLEAN, len \in RespLens : Attempt(1, ok, len)
    \/ SendPart(1)
    \/ Persist(1)
    \/ Return(1)

SpecDispatch == InitDispatch /\ [][NextDispatch]_vars

\* One conversation, one handler in flight, the clock standing still, one
\* credential: a trigger of either mode, then replies to the bot's messages, with
\* every outcome of the store lookup, of the submission and of the sending.  The
\* clock never reaches the retention window, so no record expires.
MaxMsgs == 3

FollowUpTexts == { <<"o", "k">>, <<"I", "s", " ", "i", "t">> }

NextFollowUp ==
    \/ BufferText("c1", <<"h", "i", "?">>)
    \/ \E x \in {<<".">>, <<".", ".">>} : TriggerStart("c1", x, 1)
    \/ ResolveItem(1, TRUE, 0)
    \/ \E ok \in BOOLEAN, len \in RespLens : Attempt(1, ok, len)
    \/ SendPart(1)
    \/ Persist(1)
    \/ \E raw \in FollowUpTexts, replyId \in 1..MaxMsgs :
          nextMsg <= MaxMsgs /\ ReplyStart("c1", raw, replyId, 1)
    \/ \E ok \in BOOLEAN : FindOne(1, ok)
    \/ \E ok \in BOOLEAN : SendReply(1, ok)
    \/ PersistReply(1)
    \/ Return(1)

SpecFollowUp == InitWith({<<1>>}) /\ [][NextFollowUp]_vars

\* One conversation, one handler in flight, one credential: texts that are
\* triggers, texts that look like triggers, and the clear command.
MarkerTexts ==
    { <<".">>, <<".", "1">>, <<".", "2">>, <<".", "3">>,
      <<".", ".">>, <<".", ".", "1">>, <<".", ".", "2">>, <<".", ".", "3">>,
      <<" ", ".", "2", " ">>,
      <<".", ".", ".">>, <<".", "4">>, <<".", " ", "2">>, <<".", ".", "0">> }

NextGrammar ==
    \/ \E raw \in MarkerTexts : Idle /\ BufferText("c1", raw)
    \/ \E raw \in MarkerTexts : Idle /\ TriggerEmpty("c1", raw)
    \/ \E raw \in MarkerTexts : TriggerStart("c1", raw, 1)
    \/ clearCommand("c1")
    \/ ResolveItem(1, TRUE, 0)
    \/ \E ok \in BOOLEAN : Attempt(1, ok, IF ok THEN 1 ELSE 0)
    \/ SendPart(1)
    \/ Persist(1)
    \/ Return(1)

SpecGrammar == InitWith({<<1>>}) /\ [][NextGrammar]_vars

\* processRequest as a function: one call, entered with arguments drawn from the
\* values its parameters can hold (items of every kind handleMedia and the text
\* handler push, either mode, with or without a previous context), one
\* credential, every resolution outcome.
ItemShapes(id) ==
    { MediaItem(id, "photo", MediaMime("photo", ""), "cap"),
      MediaItem(id, "video", MediaMime("video", "video/mp4"), "cap"),
      MediaItem(id, "document", MediaMime("document", "application/pdf"), "cap"),
      MediaItem(id, "voice", MediaMime("voice", ""), ""),
      TextItem(id, <<"h", "i">>) }

ItemLists(max) ==
    UNION { {s \in [1..n -> UNION {ItemShapes(id) : id \in 1..n}] :
                \A j \in 1..n : s[j] \in ItemShapes(j)} : n \in 0..max }

SeedResponse(mode) ==
    [to |-> IF mode = "secondary" THEN "secondaryTrigger" ELSE "primary",
     under |-> IF mode = "secondary" THEN SECONDARY_SYSTEM_INSTRUCTION
               ELSE PRIMARY_SYSTEM_INSTRUCTION,
     len |-> 1, key |-> 1]

\* A record of the Context collection as the trigger branch creates it.
SeedRecord(mode) ==
    [chatId |-> "c1", messageId |-> 1, originalMedia |-> <<>>,
     responseText |-> SeedResponse(mode), mode |-> mode]

Modes == {"primary", "secondary"}

ReplyTexts ==
    { <<"?">>,
      <<"E", "x", "p", "l", "a", "i", "n", " ", "i", "t">>,
      <<"o", "k">>,
      <<"I", "s", "o", "l", "a", "t", "e", "d">>,
      <<"I", "s", " ", "i", "t">>,
      <<" ", "c", "a", "n", " ", "i", "t", " ">>,
      <<"S", "o", " ", "w", "h", "a", "t">> }

Entry(items, mode, previousContext, userQuery, targetFps) ==
    [FreeTask EXCEPT !.pc = "enter", !.handler = "direct", !.chat = "c1",
                     !.items = items, !.mode = mode,
                     !.previousContext = previousContext, !.userQuery = userQuery,
                     !.fps = targetFps]

Entries ==
    { Entry(items, mode, NoContext, NoText, DEFAULT_FPS) :
          items \in ItemLists(MaxItems), mode \in Modes }
    \cup
    { Entry(items, m[1], SeedRecord(m[2]), q, DEFAULT_FPS) :
          items \in ItemLists(1), m \in Modes \X Modes, q \in ReplyTexts }

InitProcess ==
    /\ userBuffers = EmptyMap
    /\ bufferTimeouts = EmptyMap
    /\ timers = {}
    /\ now = 0
    /\ nextTimer = 1
    /\ nextItem = 1
    /\ API_KEYS = <<1>>
    /\ tmpdir = NoFiles
    /\ sampler = IdleSampler
    /\ \E e \in Entries : tasks = [t \in TaskIds |-> IF t = 1 THEN e ELSE FreeTask]
    /\ store = {}
    /\ thread = EmptyMap
    /\ nextMsg = 1
    /\ lastEvent = Event("none", "none", <<>>, <<>>, 0)
    /\ log = [c \in Chats |-> <<>>]
    /\ drained = [c \in Chats |-> <<>>]
    /\ lastAppend = [c \in Chats |-> NoAppend]
    /\ cancelled = {}

NextProcess ==
    \/ EnterProcess(1)
    \/ \E ok \in BOOLEAN, n \in 0..MaxFrames : ResolveItem(1, ok, n)
    \/ Attempt(1, TRUE, 1)
    \/ Attempt(1, FALSE, 0)
    \/ Return(1)

SpecProcess == InitProcess /\ [][NextProcess]_vars

\* Two conversations, each with at most one handler in flight, the clock
\* running, one credential whose invocation succeeds: appends, triggers, clears,
\* timer expiries and replies to the messages the bot has sent so far, on
\* either conversation, in every interleaving.
HandlerOf(chatId) == IF chatId = "c1" THEN 1 ELSE 2

NextIndependence ==
    \/ \E c \in Chats : clearCommand(c)
    \/ \E c \in Chats : BufferText(c, <<"h", "i", "?">>)
    \/ \E tm \in timers : TimerFire(tm)
    \/ Tick
    \/ \E c \in Chats : TriggerStart(c, <<".">>, HandlerOf(c))
    \/ \E t \in TaskIds : ResolveItem(t, TRUE, 0)
    \/ \E t \in TaskIds : Attempt(t, TRUE, 1)
    \/ \E t \in TaskIds : SendPart(t)
    \/ \E t \in TaskIds : Persist(t)
    \/ \E c \in Chats, replyId \in 1..(nextMsg - 1) :
          nextMsg <= MaxMsgs /\ ReplyStart(c, <<"o", "k">>, replyId, HandlerOf(c))
    \/ \E t \in TaskIds : FindOne(t, TRUE)
    \/ \E t \in TaskIds : SendReply(t, TRUE)
    \/ \E t \in TaskIds : PersistReply(t)
    \/ \E t \in TaskIds : Return(t)

SpecIndependence == InitWith({<<1>>}) /\ [][NextIndependence]_vars

\* extractFramesFromVideo as a function: one call, on videos that decode to no
\* frame, to a few, and to more than three digits can number, with every
\* outcome of the decoder and of the file system calls.
MaxDecoded == 1000

DecodedCounts == {0, 1, 2, MaxDecoded}

NextFrames ==
    \/ \E n \in DecodedCounts, ok \in BOOLEAN, left \in BOOLEAN :
            extractFramesFromVideo(n, ok, left)
    \/ \E step \in {"none", "readdirSync", "map", "unlinkSync"} : DecoderEnd(step)
    \/ \E written \in 0..MaxDecoded, unlinked \in BOOLEAN : DecoderError(written, unlinked)

SpecFrames == InitWith({<<1>>}) /\ [][NextFrames]_vars

\* ------------------------------------------------------------ properties
DrainOps == {"clear", "trigger", "timeout"}
ExplicitDrainOps == {"clear", "trigger"}

\* A step in which a drain of chatId completed.
DrainStep(chatId) ==
    /\ lastEvent'.op \in DrainOps
    /\ lastEvent'.chat = chatId
    /\ lastEvent' # lastEvent \/ drained' # drained

NoDuplicates(s) == \A j, k \in 1..Len(s) : s[j] = s[k] => j = k

\* C1: a drain (trigger, clear command or timer expiry) returns exactly the items
\* appended to the conversation since its previous drain, in append order, and a
\* drain that directly follows a drain of the same conversation returns nothing.
C1_DrainReturnsAppended ==
    [][\A c \in Chats :
          DrainStep(c) =>
             /\ lastEvent'.items = SubSeq(log[c], Len(drained[c]) + 1, Len(log[c]))
             /\ (lastEvent.op \in DrainOps /\ lastEvent.chat = c)
                    => lastEvent'.items = <<>>]_vars

W_C1_TwoItemsDrained ==
    /\ lastEvent.op = "clear"
    /\ Len(lastEvent.items) = 2
    /\ BufferOf(lastEvent.chat) = <<>>

\* C2: under every interleaving of the handlers, each item ever appended to a
\* conversation is either in the result of exactly one drain or still pending:
\* the drain results so far, followed by the pending items, are the append
\* history, in order and without repetition.
C2_NoItemLostOrDuplicated ==
    \A c \in Chats :
        /\ log[c] = drained[c] \o Ids(BufferOf(c))
        /\ NoDuplicates(log[c])
        /\ \A d \in Chats \ {c} : Range(log[c]) \cap Range(log[d]) = {}

W_C2_DrainWhileMediaSuspended ==
    \E t \in TaskIds :
        /\ tasks[t].pc = "link"
        /\ lastEvent.op \in ExplicitDrainOps
        /\ lastEvent.chat = tasks[t].chat
        /\ lastEvent.items # <<>>
        /\ \E u \in TaskIds : tasks[u].pc = "resolve" /\ tasks[u].chat = tasks[t].chat

\* C3: while items are pending, a timer is armed that falls due one idle duration
\* after the last append; when it fires the buffer is emptied and exactly one
\* notice is sent, whose count is the number of items pending at the last append.
C3_IdleEviction ==
    /\ [](\A c \in Chats :
             BufferOf(c) # <<>> =>
                \E tm \in timers :
                    /\ tm.chat = c
                    /\ tm.due = lastAppend[c].at + MEDIA_TIMEOUT_MS)
    /\ [][\A tm \in timers :
             TimerFire(tm) =>
                /\ lastAppend[tm.chat].len > 0
                /\ lastEvent'.replies =
                      <<[kind |-> "timeout", n |-> lastAppend[tm.chat].len]>>
                /\ Len(lastEvent'.items) = lastAppend[tm.chat].len
                /\ BufferOf(tm.chat)' = <<>>]_vars

W_C3_TimeoutNotice ==
    /\ lastEvent.op = "timeout"
    /\ lastEvent.replies = <<[kind |-> "timeout", n |-> 2]>>

\* C4: at most one timer is armed per conversation, it is the one the most recent
\* append armed, and a timer fires no earlier than one idle duration after the
\* most recent append.
C4_SlidingWindow ==
    /\ [](\A c \in Chats :
             /\ Cardinality(TimersOf(c)) <= 1
             /\ \A tm \in TimersOf(c) :
                   /\ tm.id = lastAppend[c].timer
                   /\ tm.due = lastAppend[c].at + MEDIA_TIMEOUT_MS)
    /\ [][\A tm \in timers :
             TimerFire(tm) =>
                /\ tm.id = lastAppend[tm.chat].timer
                /\ now >= lastAppend[tm.chat].at + MEDIA_TIMEOUT_MS]_vars

W_C4_RearmedTimerFired ==
    /\ lastEvent.op = "timeout"
    /\ lastEvent.timer = 2
    /\ Len(lastEvent.items) = 2
    /\ now > MEDIA_TIMEOUT_MS

\* C5: a timer cancelled by an explicit drain is never armed again and never
\* fires; right after an explicit drain no timer is armed for the conversation,
\* and right after an expiry nothing is pending and no timer is armed, so the
\* loser of the race finds nothing to do.
C5_TimerDrainRace ==
    /\ \A tm \in timers : tm.id \notin cancelled
    /\ lastEvent.op \in ExplicitDrainOps => TimersOf(lastEvent.chat) = {}
    /\ lastEvent.op = "timeout" =>
          /\ lastEvent.timer \notin cancelled
          /\ BufferOf(lastEvent.chat) = <<>>
          /\ TimersOf(lastEvent.chat) = {}
          /\ lastEvent.items # <<>>
          /\ NoDuplicates(drained[lastEvent.chat])

\* Timer 1 was armed by the append of item 1 and cancelled by the drain that
\* returned it; item 2 was appended one tick into the run, so timer 1's deadline
\* was at most one tick and one idle duration, which has passed, and item 2 is
\* still pending.
W_C5_CancelledDeadlinePassed ==
    \E c \in Chats :
        /\ 1 \in cancelled
        /\ drained[c] = <<1>>
        /\ Ids(BufferOf(c)) = <<2>>
        /\ lastAppend[c].at = TickMs
        /\ now >= TickMs + MEDIA_TIMEOUT_MS

\* C6: the items pending after a drain, and the items any later drain returns,
\* contain none of the items an earlier drain returned.
C6_FreshAfterDrain ==
    \A c \in Chats :
        /\ NoDuplicates(drained[c])
        /\ Range(Ids(BufferOf(c))) \cap Range(drained[c]) = {}

W_C6_AppendAfterDrain ==
    \E c \in Chats : drained[c] # <<>> /\ BufferOf(c) # <<>>

\* Every call of generateGeminiResponse made by a handler now in flight.
CallsOf(t) == tasks[t].calls

AllFailed(attempts) == \A k \in 1..Len(attempts) : ~attempts[k].ok

\* C7: in every call of generateGeminiResponse the credentials attempted so far
\* are the first ones of the configured list, in list order and once each; only
\* the last attempt can have succeeded, a call returns exactly when an attempt
\* succeeds, and it returns that credential's response.
C7_KeysInOrder ==
    \A t \in TaskIds : \A j \in 1..Len(CallsOf(t)) :
        LET call == CallsOf(t)[j]
            a == call.attempts
        IN /\ Len(a) <= Len(API_KEYS)
           /\ \A k \in 1..Len(a) : a[k].key = API_KEYS[k]
           /\ \A k \in 1..(Len(a) - 1) : ~a[k].ok
           /\ call.outcome = "ok" <=> (a # <<>> /\ a[Len(a)].ok)
           /\ call.outcome = "ok" => call.response.key = a[Len(a)].key

W_C7_LastKeySucceeds ==
    \E t \in TaskIds : \E j \in 1..Len(CallsOf(t)) :
        LET a == CallsOf(t)[j].attempts
        IN /\ CallsOf(t)[j].outcome = "ok"
           /\ Len(a) = 3
           /\ AllFailed(SubSeq(a, 1, 2))
           /\ CallsOf(t)[j].response.key = API_KEYS[3]

\* C8: a call fails with the aggregate error exactly when the pool is not empty
\* and every credential in it was attempted and failed; a call that returned has
\* a successful attempt; the handler reports the aggregate error exactly when its
\* last call failed that way, and then it has no result.
C8_AggregateError ==
    \A t \in TaskIds :
        /\ \A j \in 1..Len(CallsOf(t)) :
              LET call == CallsOf(t)[j]
                  a == call.attempts
              IN /\ call.outcome = "failed" <=>
                       /\ Len(API_KEYS) > 0
                       /\ Len(a) = Len(API_KEYS)
                       /\ AllFailed(a)
                 /\ call.outcome = "ok" => ~AllFailed(a)
                 /\ call.outcome = "nokeys" <=> Len(API_KEYS) = 0
        /\ tasks[t].error = "All API keys failed." <=>
              /\ CallsOf(t) # <<>>
              /\ CallsOf(t)[Len(CallsOf(t))].outcome = "failed"
        /\ tasks[t].error = "All API keys failed." => tasks[t].result = NoResult
        /\ tasks[t].result # NoResult =>
              CallsOf(t)[Len(CallsOf(t))].outcome = "ok"

W_C8_AllKeysFailed ==
    \E t \in TaskIds :
        /\ tasks[t].pc = "done"
        /\ tasks[t].error = "All API keys failed."
        /\ Len(API_KEYS) = MaxKeys
        /\ Len(CallsOf(t)[1].attempts) = MaxKeys

\* C9: a chained-mode dispatch makes at most two calls, the first under the
\* primary profile and the second under the secondary one; the second exists
\* only once the first has returned; a dispatch that has a result made exactly
\* two calls, both returned; and when every credential fails on the first call
\* there is no second call and the dispatch ends in an error without a result.
C9_ChainedTwoCalls ==
    \A t \in TaskIds :
        LET tk == tasks[t]
            calls == tk.calls
        IN (tk.handler = "trigger" /\ tk.mode = "secondary") =>
              /\ Len(calls) <= 2
              /\ \A j \in 1..(Len(calls) - 1) : calls[j].outcome = "ok"
              /\ Len(calls) >= 1 => calls[1].instruction = PRIMARY_SYSTEM_INSTRUCTION
              /\ Len(calls) = 2 => calls[2].instruction = SECONDARY_SYSTEM_INSTRUCTION
              /\ tk.result # NoResult =>
                    /\ Len(calls) = 2
                    /\ calls[2].outcome = "ok"
              /\ (Len(calls) >= 1 /\ calls[1].outcome = "failed") =>
                    /\ Len(calls) = 1
                    /\ tk.pc = "done"
                    /\ tk.error = "All API keys failed."
                    /\ tk.result = NoResult

W_C9_ChainSucceeded ==
    \E t \in TaskIds :
        /\ tasks[t].pc = "done"
        /\ tasks[t].mode = "secondary"
        /\ tasks[t].result # NoResult
        /\ Len(tasks[t].calls) = 2
        /\ Len(tasks[t].calls[1].attempts) = 2

\* C10: in chained mode the second call's request is the trigger prompt embedding
\* the first call's response and carries no media parts, it runs under the
\* secondary profile, and the result is the second call's response tagged
\* 'secondary', never the first call's; in primary mode the result is the only
\* call's response tagged 'primary'.  What is sent and persisted is the result.
C10_SecondaryOutputReturned ==
    \A t \in TaskIds :
        LET tk == tasks[t]
            calls == tk.calls
        IN tk.handler = "trigger" =>
              /\ (tk.mode = "secondary" /\ Len(calls) = 2) =>
                    /\ calls[2].parts = <<>>
                    /\ calls[2].prompt = [kind |-> "secondaryTrigger", notes |-> <<>>,
                                          embed |-> calls[1].response, query |-> NoText]
                    /\ calls[2].instruction = SECONDARY_SYSTEM_INSTRUCTION
              /\ (tk.mode = "secondary" /\ tk.result # NoResult) =>
                    /\ tk.result = [response |-> calls[2].response, mode |-> "secondary"]
                    /\ tk.result.response # calls[1].response
                    /\ tk.result.response.under = SECONDARY_SYSTEM_INSTRUCTION
              /\ (tk.mode = "primary" /\ tk.result # NoResult) =>
                    /\ Len(calls) = 1
                    /\ tk.result = [response |-> calls[1].response, mode |-> "primary"]
              /\ \A r \in store :
                    (r.chatId = tk.chat /\ r.messageId = tk.lastMsg /\ tk.pc = "done") =>
                        /\ r.responseText = tk.result.response
                        /\ r.mode = tk.mode

W_C10_ChainWithMedia ==
    \E t \in TaskIds :
        /\ tasks[t].pc = "done"
        /\ tasks[t].mode = "secondary"
        /\ tasks[t].processedContent # <<>>
        /\ tasks[t].calls[1].parts = tasks[t].processedContent
        /\ \E r \in store : r.messageId = tasks[t].lastMsg /\ r.mode = "secondary"
\* The instruction profile that belongs to a record's mode.
ProfileOf(mode) ==
    CASE mode = "secondary" -> SECONDARY_SYSTEM_INSTRUCTION
      [] mode = "primary" -> PRIMARY_SYSTEM_INSTRUCTION

\* C11: a call of processRequest with a previous context makes one submission,
\* under the profile of the context record's mode, whatever the reply text and
\* whatever the mode argument; its result carries the record's mode.
C11_FollowUpProfile ==
    \A t \in TaskIds :
        LET tk == tasks[t]
        IN (tk.previousContext # NoContext /\ tk.pc \notin {"enter", "resolve"}) =>
              /\ Len(tk.calls) = 1
              /\ tk.calls[1].instruction = ProfileOf(tk.previousContext.mode)
              /\ tk.calls[1].prompt.kind \in {"question", "correction"}
              /\ tk.result # NoResult =>
                    /\ tk.result.mode = tk.previousContext.mode
                    /\ tk.result.response.under = ProfileOf(tk.previousContext.mode)

W_C11_SecondaryRecordPrimaryArg ==
    \E t \in TaskIds :
        /\ tasks[t].previousContext = SeedRecord("secondary")
        /\ tasks[t].mode = "primary"
        /\ tasks[t].userQuery = <<"o", "k">>
        /\ tasks[t].result # NoResult
        /\ tasks[t].calls[1].instruction = SECONDARY_SYSTEM_INSTRUCTION
RECURSIVE Root(_)
\* The trigger-produced message at the head of the thread of message m.
Root(m) == IF thread[m].parent = 0 THEN m ELSE Root(thread[m].parent)

\* C12: a record created for a follow-up has the mode of the record replied to,
\* so every record of a thread has the mode of the trigger-produced record at its
\* head; a record's mode is the one it was created with, a conversation holds
\* one record per message, and no step removes or alters a record.
C12_ModeChain ==
    /\ [](/\ \A r \in store :
                /\ MapHas(thread, r.messageId)
                /\ r.mode = thread[r.messageId].mode
                /\ \A q \in store :
                      (q.chatId = r.chatId /\ q.messageId = r.messageId) => q = r
          /\ \A m \in DOMAIN thread :
                /\ thread[m].parent # 0 =>
                      /\ MapHas(thread, thread[m].parent)
                      /\ thread[m].mode = thread[thread[m].parent].mode
                /\ thread[m].mode = thread[Root(m)].mode)
    /\ [][store \subseteq store']_vars

W_C12_SecondaryThreadOfThree ==
    \E r \in store :
        /\ r.mode = "secondary"
        /\ thread[r.messageId].parent # 0
        /\ thread[thread[r.messageId].parent].parent # 0
        /\ thread[Root(r.messageId)].parent = 0
RECURSIVE LeadingToken(_)
\* The first whole word of a text: its characters up to the first space.
LeadingToken(text) ==
    IF text = <<>> \/ Head(text) = " " THEN <<>>
    ELSE <<Head(text)>> \o LeadingToken(Tail(text))

\* The classification by whole leading word.
LeadingTokenQuestion(text) ==
    LET t == trim(toLowerCase(text))
    IN endsWith(t, <<"?">>) \/ LeadingToken(t) \in QuestionWords

\* C13: a follow-up takes the question branch exactly when the reply text ends
\* with '?' or its lowercased first whole word is one of what, why, how, is,
\* does, can, explain, and the correction branch otherwise.
C13_LeadingTokenClassifier ==
    \A t \in TaskIds :
        LET tk == tasks[t]
        IN (tk.previousContext # NoContext /\ tk.calls # <<>>) =>
              /\ tk.calls[1].prompt.kind = "question" <=> LeadingTokenQuestion(tk.userQuery)
              /\ tk.calls[1].prompt.kind = "correction" <=>
                    ~LeadingTokenQuestion(tk.userQuery)
\* The media parts due to one item: none for a text note or a failed item, the
\* sampled frames for a video, the downloaded file for any other media item.
PartsDue(item, outcome) ==
    IF item.type = "text" \/ ~outcome.ok THEN <<>>
    ELSE IF item.type = "video"
    THEN [k \in 1..outcome.n |-> Part(item, k, "image/jpeg")]
    ELSE <<Part(item, 0, item.mime)>>

\* The captions and notes due to one item, a failed item giving none.
NotesDue(item, outcome) ==
    IF item.type = "text" THEN <<Note("text", item)>>
    ELSE IF ~outcome.ok \/ item.caption = "" THEN <<>>
    ELSE IF item.type = "video"
    THEN [k \in 1..outcome.n |-> Note("Video Frame Caption", item)]
    ELSE <<Note("caption", item)>>

RECURSIVE AllDue(_, _, _, _)
AllDue(Due(_, _), items, outcomes, j) ==
    IF j > Len(items) THEN <<>>
    ELSE Due(items[j], outcomes[j]) \o AllDue(Due, items, outcomes, j + 1)

\* C14: whatever items fail to download or to sample, a fresh request over a
\* non-empty item list reaches the submission, and the submission carries the
\* media parts of exactly the media items that did not fail, with the captions of
\* those items and none of the failed ones.
C14_PartsFromAllResolvedItems ==
    \A t \in TaskIds :
        LET tk == tasks[t]
        IN (/\ tk.handler = "direct"
            /\ tk.previousContext = NoContext
            /\ tk.items # <<>>
            /\ tk.pc \notin {"enter", "resolve"}) =>
              /\ tk.calls # <<>>
              /\ tk.calls[1].parts = AllDue(PartsDue, tk.items, tk.outcomes, 1)
              /\ tk.calls[1].prompt.notes = AllDue(NotesDue, tk.items, tk.outcomes, 1)
\* The position in the item list of the item with this identity.
PosOf(items, id) == CHOOSE j \in 1..Len(items) : items[j].id = id

\* The elements of `list` follow the order of the items they came from.
InItemOrder(items, list) ==
    \A a, b \in 1..Len(list) :
        a < b => PosOf(items, list[a].item) <= PosOf(items, list[b].item)

\* C15: the media parts collected, and those of every request built from them,
\* are in the order of the items in the list handed to processRequest, the frames
\* of one video next to each other and in the sampler's order; text notes and
\* captions are in item order too.
C15_SubmissionOrder ==
    \A t \in TaskIds :
        LET tk == tasks[t]
            parts == tk.processedContent
        IN /\ InItemOrder(tk.items, parts)
           /\ InItemOrder(tk.items, tk.textNotes)
           /\ \A a \in 1..Len(parts) :
                 parts[a].frame # 0 =>
                    parts[a].frame =
                       Cardinality({b \in 1..a : parts[b].item = parts[a].item})
           /\ \A j \in 1..Len(tk.calls) :
                 tk.calls[j].prompt.kind # "secondaryTrigger" =>
                    /\ tk.calls[j].parts = parts
                    /\ tk.calls[j].prompt.notes = tk.textNotes

W_C15_FramesThenImage ==
    \E t \in TaskIds :
        LET tk == tasks[t]
        IN /\ tk.calls # <<>>
           /\ Len(tk.items) = 2
           /\ tk.items[1].type = "video"
           /\ tk.calls[1].parts = << Part(tk.items[1], 1, "image/jpeg"),
                                     Part(tk.items[1], 2, "image/jpeg"),
                                     Part(tk.items[2], 0, "image/jpeg") >>
           /\ Len(tk.calls[1].prompt.notes) = 3
\* The replies of a handler that a user is left with as its answer.
Answers(replies) == {k \in 1..Len(replies) : replies[k].kind \in {"part", "error"}}

ErrorReplies(replies) == {k \in 1..Len(replies) : replies[k].kind = "error"}

\* C16: a trigger on an empty buffer is answered by the empty-buffer notice; a
\* trigger handler that has finished has sent the result or an error; and a
\* dispatch that failed has sent exactly one error reply.
C16_NoSilentTrigger ==
    /\ (lastEvent.op = "trigger" /\ lastEvent.items = <<>>) =>
           lastEvent.replies = <<Reply("empty", 0)>>
    /\ \A t \in TaskIds :
          LET tk == tasks[t]
          IN (tk.handler = "trigger" /\ tk.pc = "done") =>
                /\ Answers(tk.replies) # {}
                /\ tk.error # "" <=> Cardinality(ErrorReplies(tk.replies)) = 1
                /\ tk.error = "" <=> ErrorReplies(tk.replies) = {}
\* C17: a dispatch is handed exactly the items its own drain returned; when it
\* fails on every credential none of those items is pending again: the buffer
\* then holds only items appended after the drain, and since no item is drained
\* twice no later dispatch is handed them.
C17_FailedDispatchLosesItems ==
    /\ [](\A t \in TaskIds :
             LET tk == tasks[t]
                 pending == Ids(BufferOf(tk.chat))
             IN (tk.handler = "trigger" /\ tk.error = "All API keys failed.") =>
                   /\ tk.result = NoResult
                   /\ Range(pending) \cap Range(Ids(tk.items)) = {}
                   /\ \A a \in Range(pending), b \in Range(Ids(tk.items)) : a > b
                   /\ Range(Ids(tk.items)) \subseteq Range(drained[tk.chat])
                   /\ NoDuplicates(drained[tk.chat])
                   /\ \A u \in TaskIds \ {t} :
                         Range(Ids(tasks[u].items)) \cap Range(Ids(tk.items)) = {})
    /\ [][\A t \in TaskIds :
             (tasks[t].pc = "free" /\ tasks'[t].handler = "trigger") =>
                Ids(tasks'[t].items) =
                   SubSeq(drained'[tasks'[t].chat],
                          Len(drained[tasks'[t].chat]) + 1,
                          Len(drained'[tasks'[t].chat]))]_vars

W_C17_FailedWithNewerItemPending ==
    \E t \in TaskIds :
        /\ tasks[t].pc = "done"
        /\ tasks[t].error = "All API keys failed."
        /\ Ids(tasks[t].items) = <<1>>
        /\ Ids(BufferOf(tasks[t].chat)) = <<2>>
\* C18: when the store lookup of a reply fails, the handler carries on as if no
\* record had been found: it raises no error, the reply text is pending in the
\* conversation's buffer as a text item, and the idle timer is armed.
C18_LookupFailureBuffersText ==
    \A t \in TaskIds :
        LET tk == tasks[t]
            pending == BufferOf(tk.chat)
        IN (tk.handler = "reply" /\ tk.context = "rejected") =>
              /\ tk.error = ""
              /\ \E j \in 1..Len(pending) :
                     pending[j].type = "text" /\ pending[j].text = tk.text
              /\ MapHas(bufferTimeouts, tk.chat)
\* The trigger grammar, form by form.
TriggerGrammar ==
    { <<".">>, <<".", "1">>, <<".", "2">>, <<".", "3">>,
      <<".", ".">>, <<".", ".", "1">>, <<".", ".", "2">>, <<".", ".", "3">> }

ModeOfTrigger(text) ==
    IF Len(text) >= 2 /\ text[2] = "." THEN "secondary" ELSE "primary"

RateOfTrigger(text) ==
    LET last == text[Len(text)]
    IN CASE last = "1" -> 1 [] last = "2" -> 2 [] last = "3" -> 3 [] OTHER -> DEFAULT_FPS

\* C20: no text is both a single-marker and a doubled-marker trigger; a dispatch
\* started by a single marker runs in mode primary and one started by a doubled
\* marker in mode secondary, its first call under the primary profile either way;
\* its rate is the trailing digit, or the default rate for a bare marker.
C20_TriggerParsing ==
    /\ \A raw \in MarkerTexts : ~(isPrimary(trim(raw)) /\ isSecondary(trim(raw)))
    /\ \A t \in TaskIds :
          LET tk == tasks[t]
          IN tk.handler = "trigger" =>
                /\ tk.mode = ModeOfTrigger(tk.text)
                /\ tk.fps = RateOfTrigger(tk.text)
                /\ tk.result # NoResult => tk.result.mode = ModeOfTrigger(tk.text)

W_C20_DoubledMarkerRateTwo ==
    \E t \in TaskIds :
        /\ tasks[t].text = <<".", ".", "2">>
        /\ tasks[t].mode = "secondary"
        /\ tasks[t].fps = 2
        /\ tasks[t].pc = "done"
        /\ tasks[t].result # NoResult
\* C21: the result messages a handler hands to the transport are consecutive
\* spans of the response, each no longer than the maximum message length, and
\* once the result has been sent they cover the whole response.
C21_ChunkedDelivery ==
    \A t \in TaskIds :
        LET tk == tasks[t]
            out == tk.outbox
        IN /\ \A k \in 1..Len(out) :
                 /\ out[k].to - out[k].from + 1 <= MAX_PART_LEN
                 /\ out[k].from = IF k = 1 THEN 1 ELSE out[k - 1].to + 1
           /\ tk.pc \in {"persist", "persistReply"} =>
                 /\ out # <<>>
                 /\ out[Len(out)].to = tk.result.response.len

\* C22: when the frame sampler has settled, none of the files of its
\* invocation is left in the temporary directory, and a failure of the decoder
\* or of a file system call has rejected the promise.
C22_SamplerCleansUp ==
    sampler.pc = "settled" => tmpdir = NoFiles

\* C23: the frames the sampler resolves with are in the order the decoder
\* numbered them, which is the order of their timestamps.
C23_FramesInOrder ==
    sampler.settled = "resolved" =>
        \A k \in 1..(Len(sampler.frames) - 1) : sampler.frames[k] < sampler.frames[k + 1]

\* C24: the sampler never resolves with an empty list of frames.
C24_NoEmptySuccess ==
    sampler.settled = "resolved" => sampler.frames # <<>>

\* C25: a process that serves has at least one credential, so no trigger drains
\* a buffer and then fails for lack of credentials.
C25_EmptyPoolIsFatal ==
    \A t \in TaskIds :
        tasks[t].handler = "trigger" /\ drained[tasks[t].chat] # <<>> =>
            /\ Len(API_KEYS) > 0
            /\ tasks[t].error # "No API Keys"

\* The pending buffer or the armed timer of chatId differs after the step.
Changed(chatId) ==
    \/ MapHas(userBuffers, chatId)' # MapHas(userBuffers, chatId)
    \/ BufferOf(chatId)' # BufferOf(chatId)
    \/ MapHas(bufferTimeouts, chatId)' # MapHas(bufferTimeouts, chatId)
    \/ /\ MapHas(bufferTimeouts, chatId)
       /\ MapHas(bufferTimeouts, chatId)'
       /\ bufferTimeouts[chatId]' # bufferTimeouts[chatId]
    \/ TimersOf(chatId)' # TimersOf(chatId)

\* The step is a step of an operation on chatId: of a handler in flight for it,
\* or of an append, a clear, a trigger or a timer expiry on it.
OnChat(chatId) ==
    \/ \E t \in TaskIds :
          /\ tasks[t]' # tasks[t]
          /\ chatId \in {tasks[t].chat, tasks[t].chat'}
    \/ /\ tasks' = tasks
       /\ lastEvent' # lastEvent
       /\ lastEvent.chat' = chatId

\* C26: a step of an operation on one conversation leaves the pending buffer
\* and the armed timer of every other conversation unchanged, and the items a
\* drain of a conversation returns were appended to that conversation.
C26_ConversationsIndependent ==
    /\ [](\A c \in Chats : \A k \in 1..Len(drained[c]) :
              /\ \E j \in 1..Len(log[c]) : log[c][j] = drained[c][k]
              /\ \A d \in Chats \ {c} : \A j \in 1..Len(log[d]) : log[d][j] # drained[c][k])
    /\ [][\A d \in Chats :
              Changed(d) => /\ OnChat(d)
                            /\ \A c \in Chats \ {d} : ~OnChat(c)]_vars

\* A follow-up on one conversation, after a trigger drained it, is in flight
\* while the other conversation has an item pending and its timer armed.
C26_Witness ==
    /\ BufferOf("c2") # <<>>
    /\ TimersOf("c2") # {}
    /\ drained["c1"] # <<>>
    /\ \E t \in TaskIds :
          /\ tasks[t].handler = "reply"
          /\ tasks[t].chat = "c1"
          /\ tasks[t].pc = "persistReply"

\* The records of the store under the key (chatId, messageId).
RecordsAt(chatId, messageId) ==
    {r \in store : r.chatId = chatId /\ r.messageId = messageId}

C28_FollowUpLeavesBuffer ==
    [][\A t \in TaskIds :
          LET tk == tasks[t]
          IN (/\ tk.handler = "reply"
              /\ tasks[t]' # tk
              /\ ~(tk.pc = "findOne" /\ tasks[t]' = FreeTask)) =>
                /\ UNCHANGED <<userBuffers, bufferTimeouts, timers>>
                /\ tk.items = <<>> /\ tasks[t]'.items = <<>>
                /\ tk.outcomes = <<>> /\ tasks[t]'.outcomes = <<>>
                /\ tk.pc # "resolve"]_vars

\* A follow-up has failed while an item was pending and its timer armed.
C28_Witness ==
    \E t \in TaskIds :
        /\ tasks[t].handler = "reply"
        /\ tasks[t].context = "found"
        /\ tasks[t].pc = "done"
        /\ tasks[t].error # ""
        /\ BufferOf(tasks[t].chat) # <<>>
        /\ TimersOf(tasks[t].chat) # {}

\* C29: between handler steps a conversation has a timer handle, and the timer
\* of that handle armed, exactly when it has pending items; it has a buffer
\* entry exactly then too, so appends arm and drains remove both together.
C29_TimerIffPending ==
    \A c \in Chats :
        /\ MapHas(bufferTimeouts, c) <=> BufferOf(c) # <<>>
        /\ MapHas(userBuffers, c) <=> BufferOf(c) # <<>>
        /\ TimersOf(c) # {} <=> BufferOf(c) # <<>>
        /\ MapHas(bufferTimeouts, c) =>
              \E tm \in TimersOf(c) : tm.id = bufferTimeouts[c]

\* One conversation has just been emptied by its timer while the other has
\* items pending and its timer armed.
C29_Witness ==
    /\ lastEvent.op = "timeout"
    /\ lastEvent.items # <<>>
    /\ \E c \in Chats \ {lastEvent.chat} : BufferOf(c) # <<>> /\ TimersOf(c) # {}

\* The step starts the dispatch of a trigger on chatId.
Dispatches(chatId) ==
    \E t \in TaskIds :
        /\ tasks[t].pc = "free"
        /\ tasks[t]'.handler = "trigger"
        /\ tasks[t]'.chat = chatId

\* The step handles a trigger command on chatId.
TriggerOn(chatId) ==
    \/ Dispatches(chatId)
    \/ /\ lastEvent' # lastEvent
       /\ lastEvent.op' = "trigger"
       /\ lastEvent.chat' = chatId

\* C30: a trigger on a conversation with nothing pending starts no handler,
\* stores nothing, changes no buffer or timer, and is answered by exactly the
\* empty-buffer notice; right after a trigger nothing is pending, so a second
\* trigger with no append in between does not dispatch.
C30_EmptyTrigger ==
    /\ [](lastEvent.op = "trigger" => BufferOf(lastEvent.chat) = <<>>)
    /\ [][\A c \in Chats :
             /\ (TriggerOn(c) /\ BufferOf(c) = <<>>) =>
                   /\ UNCHANGED <<tasks, store, userBuffers, bufferTimeouts, timers>>
                   /\ lastEvent.items' = <<>>
                   /\ lastEvent.replies' = <<Reply("empty", 0)>>
             /\ (lastEvent.op = "trigger" /\ lastEvent.chat = c) => ~Dispatches(c)]_vars

\* A second trigger has been answered by the notice while the dispatch of the
\* first is in flight.
C30_Witness ==
    /\ lastEvent.op = "trigger"
    /\ lastEvent.replies = <<Reply("empty", 0)>>
    /\ \E t \in TaskIds :
          /\ tasks[t].handler = "trigger"
          /\ tasks[t].chat = lastEvent.chat
          /\ tasks[t].pc \notin {"free", "done"}

\* The step answers a media message with a refusal: the only-PDF notice, or the
\* error reply of a failed file-link lookup.
Refused(chatId) ==
    /\ lastEvent' # lastEvent
    /\ lastEvent.op' \in {"rejected", "linkFailed"}
    /\ lastEvent.chat' = chatId

\* C31: a step that refuses a media message appends nothing and leaves the
\* conversation's buffer, timer handle and armed timers as they were, and the
\* refusal is the only reply.
C31_RejectedMediaLeavesBuffer ==
    [][\A c \in Chats :
          Refused(c) =>
              /\ UNCHANGED <<userBuffers, bufferTimeouts, timers, nextTimer, log,
                             lastAppend>>
              /\ lastEvent.items' = <<>>
              /\ Len(lastEvent.replies') = 1]_vars

\* A file-link lookup has failed while an item was pending and its timer armed.
C31_Witness ==
    /\ lastEvent.op = "linkFailed"
    /\ BufferOf(lastEvent.chat) # <<>>
    /\ TimersOf(lastEvent.chat) # {}

====
